---- MODULE Spec2Model ----
(***************************************************************************)
(* Data-access layer of the financial dashboard: the read operations of    *)
(* app/lib/data.ts and the invoice mutations of app/lib/actions.ts, each    *)
(* following connect -> query -> map -> close on a pg Client.              *)
(*                                                                         *)
(* Text is a sequence of one-character strings, so that ILIKE, Number()    *)
(* and COUNT's text result are computed and not assumed.                *)
(***************************************************************************)
EXTENDS Integers, Sequences, FiniteSets, TLC

(* ------------------------------ bounds --------------------------------- *)

\* Most invoice rows a store holds.
MaxInvoices == 8

\* Largest page number a caller asks for.
MaxPage == 3

\* Operation invocations that can be in flight together.
NumProcs == 2

Procs == 1..NumProcs

(* ------------------------------- text ---------------------------------- *)

Digit == <<"0", "1", "2", "3", "4", "5", "6", "7", "8", "9">>

DigitVal(c) == CHOOSE d \in 0..9 : Digit[d + 1] = c

IsDigit(c) == \E d \in 0..9 : Digit[d + 1] = c

\* Case folding as ILIKE does it, on the letters the stored text uses.
Lower(c) ==
    CASE c = "A" -> "a"
      [] c = "D" -> "d"
      [] c = "I" -> "i"
      [] c = "L" -> "l"
      [] c = "P" -> "p"
      [] OTHER -> c

RECURSIVE DecStr(_)
\* The decimal text of a non-negative integer (COUNT as pg returns it,
\* int::text).
DecStr(n) == IF n < 10 THEN <<Digit[n + 1]>>
             ELSE DecStr(n \div 10) \o <<Digit[(n % 10) + 1]>>

RECURSIVE LikeMatch(_, _)
\* t ILIKE p: % matches any run of characters, _ any one character, every
\* other character itself up to case.
LikeMatch(t, p) ==
    IF p = <<>> THEN t = <<>>
    ELSE IF Head(p) = "%"
         THEN LikeMatch(t, Tail(p)) \/ (t # <<>> /\ LikeMatch(Tail(t), p))
         ELSE /\ t # <<>>
              /\ (Head(p) = "_" \/ Lower(Head(t)) = Lower(Head(p)))
              /\ LikeMatch(Tail(t), Tail(p))

\* The pattern the list queries bind to $1: `%${query}%`.
Pattern(query) == <<"%">> \o query \o <<"%">>

\* FormData.get's null, kept apart from every text.
Null == <<"null">>

(* --------------------------- Number() ---------------------------------- *)

NaN == [nan |-> TRUE, hundredths |-> 0]

Num(h) == [nan |-> FALSE, hundredths |-> h]

RECURSIVE DigitsVal(_)
DigitsVal(s) == IF s = <<>> THEN 0
                ELSE DigitsVal(SubSeq(s, 1, Len(s) - 1)) * 10 + DigitVal(s[Len(s)])

AllDigits(s) == \A i \in 1..Len(s) : IsDigit(s[i])

\* Number(text) for an unsigned decimal literal with at most two decimals,
\* in hundredths; anything else that is not empty is NaN.
UnsignedNumber(s) ==
    LET dots == {i \in 1..Len(s) : s[i] = "."}
    IN  IF dots = {}
        THEN IF s # <<>> /\ AllDigits(s) THEN Num(DigitsVal(s) * 100) ELSE NaN
        ELSE LET d == CHOOSE i \in dots : TRUE
                 ip == SubSeq(s, 1, d - 1)
                 fp == SubSeq(s, d + 1, Len(s))
             IN  IF /\ Cardinality(dots) = 1
                    /\ AllDigits(ip) /\ AllDigits(fp)
                    /\ Len(ip) + Len(fp) > 0 /\ Len(fp) <= 2
                 THEN Num(DigitsVal(ip) * 100
                          + (IF Len(fp) = 1 THEN DigitsVal(fp) * 10 ELSE DigitsVal(fp)))
                 ELSE NaN

\* JavaScript's Number(v) on what FormData.get and pg hand over: null and
\* the empty string are 0, a signed decimal literal its value, other text NaN.
Number(v) ==
    IF v = Null \/ v = <<>> THEN Num(0)
    ELSE IF Head(v) = "-"
         THEN LET u == UnsignedNumber(Tail(v))
              IN  IF u.nan THEN NaN ELSE Num(0 - u.hundredths)
         ELSE IF Head(v) = "+" THEN UnsignedNumber(Tail(v))
         ELSE UnsignedNumber(v)

\* Rounding down where the code rounds up.
MathFloor(num, den) == num \div den

\* Math.ceil(num / den) for num >= 0, den > 0.
MathCeil(num, den) == IF num % den = 0 THEN num \div den ELSE (num \div den) + 1

(* ------------------------------ store ---------------------------------- *)

paid == <<"p", "a", "i", "d">>

pending == <<"p", "e", "n", "d", "i", "n", "g">>

\* customers(id, name, email); image_url carries no behaviour.
Customers ==
    { [id |-> <<"c", "1">>, name |-> <<"L", "e", "e">>, email |-> <<"l", "@", "x">>],
      [id |-> <<"c", "2">>, name |-> <<"A", "m", "y">>, email |-> <<"a", "@", "x">>] }

\* The i-th invoice row of the stores explored: amount in integer cents,
\* date a day of January 2024. Dates repeat (rows 2,3 / 4,5 / ...), every
\* third row is pending, and every fifth names a customer that has no row.
InvoiceRow(i) ==
    [id          |-> i,
     customer_id |-> IF i % 5 = 0 THEN <<"c", "9">>
                     ELSE IF i % 2 = 0 THEN <<"c", "2">> ELSE <<"c", "1">>,
     amount      |-> i * 1500,
     status      |-> IF i % 3 = 0 THEN pending ELSE paid,
     date        |-> 1 + (i \div 2)]

Stores == { {InvoiceRow(i) : i \in 1..n} : n \in 0..MaxInvoices }

\* date::text, ISO form.
DateText(d) == <<"2", "0", "2", "4", "-", "0", "1", "-">>
               \o (IF d < 10 THEN <<"0">> ELSE <<>>) \o DecStr(d)

\* invoices JOIN customers ON invoices.customer_id = customers.id, with the
\* columns the list query selects.
Joined(invoices) ==
    { [id |-> r.id, amount |-> r.amount, date |-> r.date, status |-> r.status,
       name |-> c.name, email |-> c.email] :
      <<r, c>> \in {rc \in invoices \X Customers : rc[1].customer_id = rc[2].id} }

\* The WHERE clause shared by fetchFilteredInvoices and fetchInvoicesPages.
InvoiceWhere(row, pat) ==
    \/ LikeMatch(row.name, pat)
    \/ LikeMatch(row.email, pat)
    \/ LikeMatch(DecStr(row.amount), pat)
    \/ LikeMatch(DateText(row.date), pat)
    \/ LikeMatch(row.status, pat)

Matching(invoices, query) ==
    {row \in Joined(invoices) : InvoiceWhere(row, Pattern(query))}

RECURSIVE DateDescOrders(_)
\* ORDER BY date DESC: every order of the rows in which dates never
\* increase; rows of equal date come in an order the store picks.
DateDescOrders(S) ==
    IF S = {} THEN {<<>>}
    ELSE LET latest == {r \in S : \A q \in S : q.date <= r.date}
         IN  UNION { {<<r>> \o rest : rest \in DateDescOrders(S \ {r})} : r \in latest }

\* LIMIT lim OFFSET off of an ordered result.
LimitOffset(ord, lim, off) ==
    SubSeq(ord, off + 1, IF off + lim < Len(ord) THEN off + lim ELSE Len(ord))

ITEMS_PER_PAGE == 6

(* ------------------------- form validation ----------------------------- *)

\* customerId: z.string({invalid_type_error}).
CustomerIdIssues(v) ==
    IF v = Null THEN <<"Please select a customer.">> ELSE <<>>

\* A schema that lets a zero amount through (gte for gt).
AmountIssuesGte(v) ==
    LET n == Number(v)
    IN  IF n.nan THEN <<"Expected number, received nan">>
        ELSE IF n.hundredths >= 0 THEN <<>>
        ELSE <<"Please enter an amount greater than $0.">>

\* amount: z.coerce.number().gt(0, {message}).
AmountIssues(v) ==
    LET n == Number(v)
    IN  IF n.nan THEN <<"Expected number, received nan">>
        ELSE IF n.hundredths > 0 THEN <<>>
        ELSE <<"Please enter an amount greater than $0.">>

\* status: z.enum(['pending', 'paid'], {invalid_type_error}).
StatusIssues(v) ==
    IF v = Null THEN <<"Please select an invoice status.">>
    ELSE IF v \in {pending, paid} THEN <<>>
    ELSE <<"Invalid enum value. Expected 'pending' | 'paid'">>

\* CreateInvoice.safeParse / UpdateInvoice.parse on the three submitted
\* fields: every field is checked, and fieldErrors has a key for each
\* field that failed.
SafeParse(form) ==
    LET issues == [customerId |-> CustomerIdIssues(form.customerId),
                   amount     |-> AmountIssues(form.amount),
                   status     |-> StatusIssues(form.status)]
        failed == {f \in DOMAIN issues : issues[f] # <<>>}
    IN  [success     |-> failed = {},
         fieldErrors |-> [f \in failed |-> issues[f]],
         data        |-> [customerId |-> form.customerId,
                          amount     |-> Number(form.amount),
                          status     |-> form.status]]

(* ---------------------------- operations ------------------------------- *)

ReadOps == {"fetchRevenue", "fetchLatestInvoices", "fetchCardData",
            "fetchFilteredInvoices", "fetchInvoicesPages", "fetchInvoiceById",
            "fetchCustomers", "fetchFilteredCustomers", "getUser"}

MutationOps == {"createInvoice", "updateInvoice", "deleteInvoice"}

\* The message each operation's catch block raises (reads) or returns
\* (mutations).
FailMessage(op) ==
    CASE op = "fetchRevenue"           -> "Failed to fetch revenue data."
      [] op = "fetchLatestInvoices"    -> "Failed to fetch the latest invoices."
      [] op = "fetchCardData"          -> "Failed to fetch card data."
      [] op = "fetchFilteredInvoices"  -> "Failed to fetch invoices."
      [] op = "fetchInvoicesPages"     -> "Failed to fetch total number of invoices."
      [] op = "fetchInvoiceById"       -> "Failed to fetch invoice."
      [] op = "fetchCustomers"         -> "Failed to fetch all customers."
      [] op = "fetchFilteredCustomers" -> "Failed to fetch customer table."
      [] op = "getUser"                -> "Failed to fetch user."
      [] op = "createInvoice"          -> "Database Error: Failed to Create Invoice"
      [] op = "updateInvoice"          -> "Database Error: Failed to Update Invoice"
      [] op = "deleteInvoice"          -> "Database Error: Failed to Delete Invoice"

\* fetchCardData issues three statements before its first await, every
\* other operation one.
NStatements(op) == IF op = "fetchCardData" THEN 3 ELSE 1

\* actions.ts imports connectClient from data.ts, which declares it without
\* export: the imported binding is undefined and calling it is a TypeError.
ConnectClientExported == FALSE

\* createInvoice reads amount, customerId and status without ever taking
\* them out of validatedFields.data: evaluating `amount * 100` is a
\* ReferenceError.
CreateInvoiceFieldsBound == FALSE

(* ------------------------------ inputs --------------------------------- *)

NoForm == [customerId |-> Null, amount |-> Null, status |-> Null]

MkCall(op, query, page, id, form) ==
    [op |-> op, query |-> query, page |-> page, id |-> id, form |-> form]

Queries == { <<>>, paid, <<"P", "A", "I", "D">>, <<"l", "e", "e">>, <<"_", "@">>, <<"z">> }

\* Row ids asked for: the first row's (present in every store but the
\* empty one) and one no store has.
Ids == {1, 99}

Forms ==
    [customerId : {Null, <<"c", "1">>},
     amount     : {Null, <<>>, <<"0">>, <<"-", "5">>, <<"x">>,
                   <<"5", "0", ".", "0", "0">>, <<"0", ".", "5">>},
     status     : {Null, paid, pending, <<"d", "u", "e">>}]

AllCalls ==
    {MkCall(op, <<>>, 1, 0, NoForm) :
        op \in {"fetchRevenue", "fetchLatestInvoices", "fetchCardData",
                "fetchCustomers", "getUser"}}
    \cup {MkCall("fetchFilteredInvoices", q, pg, 0, NoForm) :
             q \in Queries, pg \in 1..MaxPage}
    \cup {MkCall(op, q, 1, 0, NoForm) :
             op \in {"fetchInvoicesPages", "fetchFilteredCustomers"}, q \in Queries}
    \cup {MkCall(op, <<>>, 1, id, NoForm) :
             op \in {"fetchInvoiceById", "deleteInvoice"}, id \in Ids}
    \cup {MkCall("createInvoice", <<>>, 1, 0, f) : f \in Forms}
    \cup {MkCall("updateInvoice", <<>>, 1, id, f) : id \in Ids, f \in Forms}

\* The calls of the concurrent runs: the three reads a dashboard page
\* makes in parallel, and a mutation.
ConcurrentCalls ==
    {MkCall(op, <<>>, 1, 1, NoForm) :
        op \in {"fetchRevenue", "fetchLatestInvoices", "fetchCardData", "deleteInvoice"}}

(* ------------------------------- state --------------------------------- *)

VARIABLES
    store,      \* the invoices table
    workload,   \* per caller, the calls it may make
    conns,      \* every Client constructed, by handle
    pc,         \* per caller: idle, connecting, querying, ending, done
    call,       \* per caller, the operation and arguments of its invocation
    client,     \* per caller, the handle connectClient returned (0: none)
    stmts,      \* per caller, its statements: pending, ok or failed
    outcome,    \* per caller, what the invocation returns or throws
    signals,    \* per caller, revalidatePath / redirect calls made
    isConnected,    \* dbConnection.js: the module's flag
    sharedClient,   \* dbConnection.js: the module's one Client
    caller          \* dbConnection.js: per caller, where it is in connectClient

singletonVars == <<isConnected, sharedClient, caller>>

operationVars == <<store, workload, conns, pc, call, client, stmts, outcome, signals>>

vars == <<store, workload, conns, pc, call, client, stmts, outcome, signals,
          isConnected, sharedClient, caller>>

EmptyErrors == [f \in {} |-> <<>>]

NoCard == [numberOfCustomers |-> 0, numberOfInvoices |-> 0,
           totalPaidInvoices    |-> [currency |-> "none", cents |-> 0],
           totalPendingInvoices |-> [currency |-> "none", cents |-> 0]]

NoOutcome == [kind |-> "none", error |-> "", message |-> "", errors |-> EmptyErrors,
              rows |-> <<>>, pages |-> 0, card |-> NoCard]

Thrown(e) == [NoOutcome EXCEPT !.kind = "thrown", !.error = e]

ReturnedMessage(m) == [NoOutcome EXCEPT !.kind = "returned", !.message = m]

ReturnedRows(r) == [NoOutcome EXCEPT !.kind = "returned", !.rows = r]

NoSignals == [revalidated |-> FALSE, redirected |-> FALSE]

(* ------------------------------ results -------------------------------- *)

\* formatCurrency of app/lib/utils: cents shown as a currency amount.
formatCurrency(cents) == [currency |-> "USD", cents |-> cents]

RECURSIVE SumAmounts(_)
SumAmounts(S) ==
    IF S = {} THEN 0
    ELSE LET r == CHOOSE x \in S : TRUE IN r.amount + SumAmounts(S \ {r})

\* Number(res.rows[0].count): COUNT arrives as decimal text.
CountOf(S) == Number(DecStr(Cardinality(S))).hundredths \div 100

\* What fetchCardData builds from its three results. SUM over no rows is
\* NULL, which `?? '0'` turns into 0.
CardData(invoices) ==
    [numberOfCustomers    |-> CountOf(Customers),
     numberOfInvoices     |-> CountOf(invoices),
     totalPaidInvoices    |-> formatCurrency(SumAmounts({r \in invoices : r.status = paid})),
     totalPendingInvoices |-> formatCurrency(SumAmounts({r \in invoices : r.status = pending}))]

\* Math.ceil(Number(res.rows[0].count) / ITEMS_PER_PAGE).
TotalPages(invoices, query) ==
    MathCeil(Number(DecStr(Cardinality(Matching(invoices, query)))).hundredths,
             100 * ITEMS_PER_PAGE)

\* An offset that takes page 1 for page 0.
PageOffsetFromZero(currentPage) == currentPage * ITEMS_PER_PAGE

\* const offset = (currentPage - 1) * ITEMS_PER_PAGE.
PageOffset(currentPage) == (currentPage - 1) * ITEMS_PER_PAGE

\* The rows fetchFilteredInvoices can get back for one page.
FilteredInvoices(invoices, query, currentPage) ==
    LET offset == PageOffset(currentPage)
    IN  {LimitOffset(ord, ITEMS_PER_PAGE, offset) :
            ord \in DateDescOrders(Matching(invoices, query))}

\* What the try block of a read hands to its return once every statement
\* has succeeded; a mutation's try block returns nothing and control goes on
\* after the finally.
TryResults(c, invoices) ==
    CASE c.op = "fetchFilteredInvoices" ->
            {ReturnedRows(r) : r \in FilteredInvoices(invoices, c.query, c.page)}
      [] c.op = "fetchInvoicesPages" ->
            {[NoOutcome EXCEPT !.kind = "returned",
                               !.pages = TotalPages(invoices, c.query)]}
      [] c.op = "fetchCardData" ->
            {[NoOutcome EXCEPT !.kind = "returned", !.card = CardData(invoices)]}
      [] c.op = "fetchLatestInvoices" ->
            {ReturnedRows([i \in DOMAIN r |-> [r[i] EXCEPT !.amount = formatCurrency(@)]]) :
                r \in {LimitOffset(ord, 5, 0) : ord \in DateDescOrders(Joined(invoices))}}
      [] c.op = "fetchInvoiceById" ->
            \* amount / 100: cents become dollars; invoice[0] is undefined
            \* when no row has the id.
            LET found == {y \in invoices : y.id = c.id}
            IN  {ReturnedRows(IF found = {} THEN <<>>
                              ELSE LET x == CHOOSE y \in found : TRUE
                                   IN  <<[id |-> x.id, customer_id |-> x.customer_id,
                                          status |-> x.status, amount |-> Num(x.amount)]>>)}
      [] c.op \in MutationOps -> {NoOutcome}
      [] OTHER -> {ReturnedRows(<<>>)}

\* A catch block that swallows the failure and hands back an empty result.
CaughtReturnsEmpty(op) == ReturnedRows(<<>>)

\* What the catch block does with a rejected statement: a read throws its
\* own message, a mutation returns it.
Caught(op) ==
    IF op \in ReadOps THEN Thrown(FailMessage(op)) ELSE ReturnedMessage(FailMessage(op))

Today == 9

\* The effect of a mutation's statement on the invoices table.
Execute(c, invoices) ==
    LET d == SafeParse(c.form).data
        amountInCents == d.amount.hundredths
    IN  CASE c.op = "createInvoice" ->
                invoices \cup {[id |-> Cardinality(invoices) + 100,
                                customer_id |-> d.customerId, amount |-> amountInCents,
                                status |-> d.status, date |-> Today]}
          [] c.op = "updateInvoice" ->
                {IF r.id = c.id
                 THEN [r EXCEPT !.customer_id = d.customerId, !.amount = amountInCents,
                                !.status = d.status]
                 ELSE r : r \in invoices}
          [] c.op = "deleteInvoice" -> {r \in invoices : r.id # c.id}
          [] OTHER -> invoices

(* ------------------------------ actions -------------------------------- *)

\* A handle no caller is shared with another: the module-level client of a
\* singleton connection module.
SharedHandle(cs) == 1

\* new Client(clientConfig): a handle no earlier call has.
NewHandle(cs) == Len(cs) + 1

\* connectClient up to its await: a Client is constructed and connect()
\* is started on it.
ConnectClient(p) ==
    /\ client' = [client EXCEPT ![p] = NewHandle(conns)]
    /\ conns' = Append(conns, [owner |-> p, state |-> "connecting",
                               users |-> {}, endCalls |-> 0])
    /\ pc' = [pc EXCEPT ![p] = "connecting"]
    /\ outcome' = outcome

\* The invocation ends at once, with outcome o and no connection.
Finish(p, o) ==
    /\ pc' = [pc EXCEPT ![p] = "done"]
    /\ outcome' = [outcome EXCEPT ![p] = o]
    /\ UNCHANGED <<client, conns>>

\* A caller invokes an operation; the operation runs to its first await.
Call(p) ==
    /\ pc[p] = "idle"
    /\ \E c \in workload[p] :
        LET v == SafeParse(c.form) IN
        /\ call' = [call EXCEPT ![p] = c]
        /\ CASE c.op \in ReadOps -> ConnectClient(p)
             [] c.op = "createInvoice" ->
                    IF ~v.success
                    THEN Finish(p, [NoOutcome EXCEPT
                                      !.kind = "returned",
                                      !.errors = v.fieldErrors,
                                      !.message = "Missing Fields. Failed to Create Invoice"])
                    ELSE IF ~CreateInvoiceFieldsBound
                    THEN Finish(p, Thrown("ReferenceError: amount is not defined"))
                    ELSE IF ~ConnectClientExported
                    THEN Finish(p, Thrown("TypeError: connectClient is not a function"))
                    ELSE ConnectClient(p)
             [] c.op = "updateInvoice" ->
                    IF ~v.success
                    THEN Finish(p, Thrown("ZodError"))
                    ELSE IF ~ConnectClientExported
                    THEN Finish(p, Thrown("TypeError: connectClient is not a function"))
                    ELSE ConnectClient(p)
             [] c.op = "deleteInvoice" ->
                    IF ~ConnectClientExported
                    THEN Finish(p, Thrown("TypeError: connectClient is not a function"))
                    ELSE ConnectClient(p)
    /\ UNCHANGED <<store, workload, stmts, signals>>
    /\ UNCHANGED singletonVars

\* client.connect() resolves; connectClient returns the client and the
\* operation issues its statements, then awaits them.
ConnectOk(p) ==
    /\ pc[p] = "connecting"
    /\ conns' = [conns EXCEPT ![client[p]].state = "open",
                              ![client[p]].users = @ \cup {p}]
    /\ stmts' = [stmts EXCEPT ![p] = [i \in 1..NStatements(call[p].op) |-> "pending"]]
    /\ pc' = [pc EXCEPT ![p] = "querying"]
    /\ UNCHANGED <<store, workload, call, client, outcome, signals>>
    /\ UNCHANGED singletonVars

\* client.connect() rejects. The await is outside the try block: the
\* driver's error leaves the operation as it is and end() is not called.
ConnectFail(p) ==
    /\ pc[p] = "connecting"
    /\ conns' = [conns EXCEPT ![client[p]].state = "failed"]
    /\ pc' = [pc EXCEPT ![p] = "done"]
    /\ outcome' = [outcome EXCEPT ![p] = Thrown("driver: connect failed")]
    /\ UNCHANGED <<store, workload, call, client, stmts, signals>>
    /\ UNCHANGED singletonVars

\* A connection on which end() is called twice (once in the try block and
\* once more in the finally).
FinallyTwice(c, p) ==
    [c EXCEPT !.state = "ending", !.endCalls = @ + 2, !.users = @ \cup {p}]

\* finally { await client.end() }: end() is called on the operation's
\* client and the operation waits for it.
Finally(c, p) ==
    [c EXCEPT !.state = "ending", !.endCalls = @ + 1, !.users = @ \cup {p}]

\* Statement i of p's operation succeeds. When it is the last one
\* outstanding the await is over: the try block computes its result and
\* the finally block starts.
StmtOk(p, i) ==
    /\ pc[p] = "querying"
    /\ i \in DOMAIN stmts[p]
    /\ stmts[p][i] = "pending"
    /\ LET after == [stmts[p] EXCEPT ![i] = "ok"] IN
        /\ stmts' = [stmts EXCEPT ![p] = after]
        /\ store' = Execute(call[p], store)
        /\ IF \A j \in DOMAIN after : after[j] = "ok"
           THEN /\ \E o \in TryResults(call[p], store) :
                      outcome' = [outcome EXCEPT ![p] = o]
                /\ conns' = [conns EXCEPT ![client[p]] = Finally(@, p)]
                /\ pc' = [pc EXCEPT ![p] = "ending"]
           ELSE UNCHANGED <<outcome, conns, pc>>
    /\ UNCHANGED <<workload, call, client, signals>>
    /\ UNCHANGED singletonVars

\* Statement i of p's operation is rejected: the await (Promise.all for
\* fetchCardData) rejects at once, the catch block runs and the finally
\* block starts, whatever the other statements are doing.
StmtFail(p, i) ==
    /\ pc[p] = "querying"
    /\ i \in DOMAIN stmts[p]
    /\ stmts[p][i] = "pending"
    /\ stmts' = [stmts EXCEPT ![p][i] = "failed"]
    /\ outcome' = [outcome EXCEPT ![p] = Caught(call[p].op)]
    /\ conns' = [conns EXCEPT ![client[p]] = Finally(@, p)]
    /\ pc' = [pc EXCEPT ![p] = "ending"]
    /\ UNCHANGED <<store, workload, call, client, signals>>
    /\ UNCHANGED singletonVars

\* client.end() resolves and the finally block is over: a pending return
\* or throw takes effect; a mutation whose try block completed goes on to
\* revalidatePath and, for create and update, redirect.
EndDone(p) ==
    /\ pc[p] = "ending"
    /\ conns' = [conns EXCEPT ![client[p]].state = "ended"]
    /\ pc' = [pc EXCEPT ![p] = "done"]
    /\ IF outcome[p].kind = "none"
       THEN /\ signals' = [signals EXCEPT ![p] =
                              [revalidated |-> TRUE,
                               redirected  |-> call[p].op # "deleteInvoice"]]
            /\ outcome' = [outcome EXCEPT ![p].kind =
                              IF call[p].op = "deleteInvoice" THEN "returned"
                              ELSE "redirected"]
       ELSE UNCHANGED <<signals, outcome>>
    /\ UNCHANGED <<store, workload, call, client, stmts>>
    /\ UNCHANGED singletonVars

Next ==
    \E p \in Procs :
        \/ Call(p)
        \/ ConnectOk(p)
        \/ ConnectFail(p)
        \/ \E i \in 1..3 : StmtOk(p, i)
        \/ \E i \in 1..3 : StmtFail(p, i)
        \/ EndDone(p)

\* dbConnection.js as loaded: the client constructed and not connected, the
\* flag false, nobody inside connectClient.
InitSingleton ==
    /\ isConnected = FALSE
    /\ sharedClient = [state |-> "new", connectCalls |-> 0, failures |-> 0]
    /\ caller = [p \in Procs |-> [at |-> "out", calls |-> 0, result |-> "none"]]

InitCommon ==
    /\ InitSingleton
    /\ conns = <<>>
    /\ pc = [p \in Procs |-> "idle"]
    /\ call = [p \in Procs |-> MkCall("none", <<>>, 1, 0, NoForm)]
    /\ client = [p \in Procs |-> 0]
    /\ stmts = [p \in Procs |-> <<>>]
    /\ outcome = [p \in Procs |-> NoOutcome]
    /\ signals = [p \in Procs |-> NoSignals]

\* One caller, every call, every store.
Init ==
    /\ store \in Stores
    /\ workload = [p \in Procs |-> IF p = 1 THEN AllCalls ELSE {}]
    /\ InitCommon

Spec == Init /\ [][Next]_vars

\* Every caller at once, on the fullest store.
InitConcurrent ==
    /\ store = {InvoiceRow(i) : i \in 1..MaxInvoices}
    /\ workload = [p \in Procs |-> ConcurrentCalls]
    /\ InitCommon

SpecConcurrent == InitConcurrent /\ [][Next]_vars

(* ------------------- the singleton of dbConnection.js ------------------ *)

\* Calls of connectClient one caller makes.
MaxCalls == 3

\* if (!isConnected): the flag alone decides whether connect() is called.
NeedsConnect(flag, c) == ~flag

\* A caller enters connectClient and runs to the await: with the flag set
\* it returns at once, otherwise it calls client.connect() and waits.
SingletonCall(p) ==
    /\ caller[p].at = "out"
    /\ caller[p].calls < MaxCalls
    /\ IF NeedsConnect(isConnected, sharedClient)
       THEN /\ sharedClient' =
                 [sharedClient EXCEPT
                    !.connectCalls = @ + 1,
                    !.state = IF @ = "new" THEN "connecting" ELSE @]
            /\ caller' = [caller EXCEPT
                    ![p] = [at     |-> IF sharedClient.state = "new"
                                      THEN "awaitFirst" ELSE "awaitAgain",
                            calls  |-> @.calls + 1,
                            result |-> "none"]]
       ELSE /\ caller' = [caller EXCEPT
                    ![p] = [at |-> "out", calls |-> @.calls + 1, result |-> "returned"]]
            /\ UNCHANGED sharedClient
    /\ UNCHANGED isConnected
    /\ UNCHANGED operationVars

\* The awaited connect() resolves: isConnected = true, and connectClient
\* returns. Only the first connect() on a Client can resolve: pg rejects a
\* connect() on a client that is connecting, connected or failed.
SingletonConnected(p) ==
    /\ caller[p].at = "awaitFirst"
    /\ isConnected' = TRUE
    /\ sharedClient' = [sharedClient EXCEPT !.state = "connected"]
    /\ caller' = [caller EXCEPT ![p].at = "out", ![p].result = "returned"]
    /\ UNCHANGED operationVars

\* The awaited connect() rejects: the error is logged and thrown again,
\* the flag stays as it is.
SingletonRejected(p) ==
    /\ caller[p].at \in {"awaitFirst", "awaitAgain"}
    /\ sharedClient' =
          [sharedClient EXCEPT
             !.failures = @ + 1,
             !.state = IF caller[p].at = "awaitFirst" THEN "failed" ELSE @]
    /\ caller' = [caller EXCEPT ![p].at = "out", ![p].result = "thrown"]
    /\ UNCHANGED isConnected
    /\ UNCHANGED operationVars

NextSingleton ==
    \E p \in Procs :
        \/ SingletonCall(p)
        \/ SingletonConnected(p)
        \/ SingletonRejected(p)

\* Callers of the singleton's connectClient, and no operation of data.ts.
InitSingletonCallers ==
    /\ store = {}
    /\ workload = [p \in Procs |-> {}]
    /\ InitCommon

SpecSingleton == InitSingletonCallers /\ [][NextSingleton]_vars

(* ------------------------------- claims -------------------------------- *)

Done(p) == pc[p] = "done"

Owned(p) == {h \in DOMAIN conns : conns[h].owner = p}

\* C1: an operation closes the connection it opened exactly once on every
\* exit path. No connection has end() called on it twice; an operation that
\* is over holds either no client at all (validation, or another error,
\* stopped it before connectClient), a client whose connect failed and on
\* which end() was never called, or a client that is ended after exactly
\* one end().
C1_ClosedExactlyOnce ==
    /\ \A h \in DOMAIN conns :
          /\ conns[h].endCalls <= 1
          /\ conns[h].state \in {"connecting", "open", "failed"} => conns[h].endCalls = 0
          /\ conns[h].state \in {"ending", "ended"} => conns[h].endCalls = 1
    /\ \A p \in Procs :
          Done(p) =>
             IF client[p] = 0 THEN Owned(p) = {}
             ELSE /\ Owned(p) = {client[p]}
                  /\ conns[client[p]].state \in {"ended", "failed"}
                  /\ stmts[p] # <<>> => conns[client[p]].state = "ended"

\* C1's case: a read whose statement failed and was caught is over, and its
\* connection is ended after one end().
C1_Witness ==
    \E p \in Procs :
        /\ Done(p)
        /\ call[p].op = "fetchRevenue"
        /\ outcome[p] = Thrown("Failed to fetch revenue data.")
        /\ conns[client[p]].state = "ended"
        /\ conns[client[p]].endCalls = 1

\* C2: whatever fails in a read operation, in connect or in a statement,
\* the caller gets that operation's own message and never the driver's
\* error.
C2_ReadFailureIsDomainError ==
    \A p \in Procs :
        (Done(p) /\ call[p].op \in ReadOps /\ outcome[p].kind = "thrown")
            => outcome[p].error = FailMessage(call[p].op)

\* The forms C3 is about: customerId and status valid, amount a number that
\* is 0 or less.
NonPositiveAmountForm(f) ==
    /\ f.customerId # Null
    /\ f.status \in {paid, pending}
    /\ ~Number(f.amount).nan
    /\ Number(f.amount).hundredths <= 0

\* C3: createInvoice with an amount of 0 or less returns field errors with
\* the key amount and touches no store: no client, no statement, no
\* invalidation, no redirect.
C3_NonPositiveAmountRejected ==
    \A p \in Procs :
        (Done(p) /\ call[p].op = "createInvoice" /\ NonPositiveAmountForm(call[p].form))
            => /\ outcome[p].kind = "returned"
               /\ "amount" \in DOMAIN outcome[p].errors
               /\ outcome[p].errors["amount"] # <<>>
               /\ client[p] = 0
               /\ Owned(p) = {}
               /\ stmts[p] = <<>>
               /\ signals[p] = NoSignals

\* C3's case: createInvoice is over for amount 0 and for no other fault.
C3_Witness ==
    \E p \in Procs :
        /\ Done(p)
        /\ call[p].op = "createInvoice"
        /\ call[p].form = [customerId |-> <<"c", "1">>, amount |-> <<"0">>, status |-> paid]
        /\ DOMAIN outcome[p].errors = {"amount"}

\* C4: createInvoice with a payload that passes validation inserts one row
\* with the amount in cents and today's date, closes its connection,
\* invalidates the invoices view and redirects.
C4_ValidCreateInserts ==
    \A p \in Procs :
        (Done(p) /\ call[p].op = "createInvoice" /\ SafeParse(call[p].form).success)
            => /\ outcome[p].kind = "redirected"
               /\ signals[p] = [revalidated |-> TRUE, redirected |-> TRUE]
               /\ client[p] # 0
               /\ \E r \in store :
                     /\ r.amount = Number(call[p].form.amount).hundredths
                     /\ r.date = Today

\* C5: no mutation throws to its caller: whatever goes wrong, it returns a
\* message object or field errors.
C5_MutationNeverThrows ==
    \A p \in Procs :
        (Done(p) /\ call[p].op \in MutationOps) => outcome[p].kind # "thrown"

\* The number of rows of S dated after d, and dated d or after.
After(S, d) == Cardinality({m \in S : m.date > d})

NotBefore(S, d) == Cardinality({m \in S : m.date >= d})

\* C6: fetchFilteredInvoices(query, p) returns at most 6 rows, the ones at
\* positions (p-1)*6 .. (p-1)*6+5 of the matching rows in an order of
\* descending date, and no rows (not an error) for a page past the end.
C6_PageOfMatchingRows ==
    \A p \in Procs :
        (pc[p] \in {"ending", "done"} /\ call[p].op = "fetchFilteredInvoices"
           /\ stmts[p] = <<"ok">>)
        => LET M    == Matching(store, call[p].query)
               n    == Cardinality(M)
               from == (call[p].page - 1) * 6
               r    == outcome[p].rows
           IN  /\ outcome[p].kind = "returned"
               /\ Len(r) <= 6
               /\ Len(r) = IF n <= from THEN 0 ELSE IF n - from >= 6 THEN 6 ELSE n - from
               /\ \A i \in 1..Len(r) :
                     /\ r[i] \in M
                     /\ \A j \in 1..Len(r) : i < j => (r[i] # r[j] /\ r[i].date >= r[j].date)
                     /\ After(M, r[i].date) <= from + i - 1
                     /\ NotBefore(M, r[i].date) >= from + i

\* C6's case: a second page that holds the one row left over by a full
\* first page.
C6_Witness ==
    \E p \in Procs :
        /\ Done(p)
        /\ call[p].op = "fetchFilteredInvoices"
        /\ call[p].page = 2
        /\ Cardinality(Matching(store, call[p].query)) = 7
        /\ Len(outcome[p].rows) = 1

\* C7: fetchInvoicesPages returns the ceiling of n / 6 for the n matching
\* rows: 0 for none, and otherwise the one number of pages that holds all
\* rows and has a row on its last page.
C7_PagesIsCeiling ==
    \A p \in Procs :
        (pc[p] \in {"ending", "done"} /\ call[p].op = "fetchInvoicesPages"
           /\ stmts[p] = <<"ok">>)
        => LET n     == Cardinality(Matching(store, call[p].query))
               pages == outcome[p].pages
           IN  /\ outcome[p].kind = "returned"
               /\ pages * 6 >= n
               /\ n = 0 => pages = 0
               /\ n > 0 => (pages - 1) * 6 < n
               /\ n = 6 => pages = 1
               /\ n = 7 => pages = 2

\* C7's case: seven matching rows make two pages.
C7_Witness ==
    \E p \in Procs :
        /\ Done(p)
        /\ call[p].op = "fetchInvoicesPages"
        /\ Cardinality(Matching(store, call[p].query)) = 7
        /\ outcome[p].pages = 2

\* C8: fetchCardData puts its three statements on one connection; it
\* returns the four figures only when all three succeeded, and when one is
\* rejected it fails with its own message and no figures.
C8_CardDataAllOrNothing ==
    \A p \in Procs :
        (call[p].op = "fetchCardData" /\ pc[p] \in {"querying", "ending", "done"}
           /\ stmts[p] # <<>>)
        => LET ok     == \A i \in DOMAIN stmts[p] : stmts[p][i] = "ok"
               failed == \E i \in DOMAIN stmts[p] : stmts[p][i] = "failed"
           IN  /\ Len(stmts[p]) = 3
               /\ Owned(p) = {client[p]}
               /\ outcome[p].kind = "returned" <=> ok
               /\ ok => outcome[p].card =
                           [numberOfCustomers    |-> Cardinality(Customers),
                            numberOfInvoices     |-> Cardinality(store),
                            totalPaidInvoices    |-> formatCurrency(
                                SumAmounts({r \in store : r.status = paid})),
                            totalPendingInvoices |-> formatCurrency(
                                SumAmounts({r \in store : r.status = pending}))]
               /\ failed => outcome[p] = Thrown("Failed to fetch card data.")
               /\ ~ok => outcome[p].card = NoCard

\* C8's case: two statements succeeded, the third was rejected, and the
\* operation is over with its error.
C8_Witness ==
    \E p \in Procs :
        /\ Done(p)
        /\ call[p].op = "fetchCardData"
        /\ Cardinality({i \in DOMAIN stmts[p] : stmts[p][i] = "ok"}) = 2
        /\ stmts[p][1] = "failed"
        /\ outcome[p].kind = "thrown"

\* C9: deleteInvoice for an id no row has completes without a throw and
\* without an error message: the DELETE is issued, the connection closed,
\* the invoices view invalidated, and nothing redirects.
C9_DeleteOfMissingIdCompletes ==
    \A p \in Procs :
        (Done(p) /\ call[p].op = "deleteInvoice"
           /\ \A r \in store : r.id # call[p].id)
        => /\ outcome[p].kind = "returned"
           /\ outcome[p].message = ""
           /\ stmts[p] = <<"ok">>
           /\ client[p] # 0
           /\ signals[p] = [revalidated |-> TRUE, redirected |-> FALSE]

\* C10: concurrent operations share no connection: every client has one
\* owner, is held, queried and ended by that owner only, and is open for as
\* long as its owner's statements are outstanding.
C10_NoSharedConnection ==
    /\ \A p, q \in Procs : (p # q /\ client[p] # 0) => client[p] # client[q]
    /\ \A p \in Procs : client[p] # 0 =>
          /\ client[p] \in DOMAIN conns
          /\ conns[client[p]].owner = p
    /\ \A h \in DOMAIN conns : conns[h].users \subseteq {conns[h].owner}
    /\ \A p \in Procs : pc[p] = "querying" => conns[client[p]].state = "open"

\* C10's case: one operation has closed its connection while another still
\* has a statement outstanding on its own.
C10_Witness ==
    \E p, q \in Procs :
        /\ p # q
        /\ pc[p] = "querying"
        /\ pc[q] = "done"
        /\ client[q] # 0
        /\ conns[client[q]].state = "ended"
        /\ conns[client[p]].state = "open"

\* C12: fetchCardData calls end() on its connection only after all three of
\* its statements have settled: no statement of it is outstanding on a
\* connection that is ending or ended.
C12_EndAfterAllSettled ==
    \A p \in Procs :
        (call[p].op = "fetchCardData" /\ client[p] # 0
           /\ conns[client[p]].endCalls > 0)
        => \A i \in DOMAIN stmts[p] : stmts[p][i] # "pending"

\* C11: on the shared client of dbConnection.js, client.connect() is
\* called at most once unless an earlier attempt failed: every call after
\* the first follows a failed attempt, so two callers that both start
\* before the first connect completes do not both call it.
C11_ConnectAtMostOnce ==
    sharedClient.connectCalls <= 1 + sharedClient.failures

====
